---- MODULE Spec2Model ----
(***************************************************************************)
(* Model of up-mcp: a FastMCP tool dispatch layer (src/src/server.py) over *)
(* the Up Bank API client UpAPI (src/src/up_api.py).                       *)
(*                                                                         *)
(* Python values are modelled as follows.                                  *)
(*   Optional[T]   None is the record None, a given value v is Some(v)     *)
(*   str           a TLA+ string; an f-string is the sequence of its parts *)
(*   dict          a function from its keys to its values                  *)
(*   list          a sequence                                              *)
(*   parsed JSON   the set of <<path, leaf>> pairs of the document         *)
(***************************************************************************)
EXTENDS Integers, Sequences, FiniteSets, TLC

VARIABLES env, calls, wire

vars == <<env, calls, wire>>

----------------------------------------------------------------------------
(* Bounds of the model *)

\* number of tool calls the hosting transport runs concurrently
NumCalls == 2

\* longest tag list a caller passes to a tag-mutation tool
MaxTags == 2

----------------------------------------------------------------------------
(* Python values *)

None == [none |-> TRUE]

PyStr(s) == [str |-> s]

PyInt(n) == [int |-> n]

\* bool(x) of an Optional[str]: None and "" are falsy
Truthy(x) == x # None /\ x # PyStr("")

\* Python's `a or b`
PyOr(a, b) == IF Truthy(a) THEN a ELSE b

\* {**a, **b}
Merge(a, b) ==
    [k \in (DOMAIN a) \cup (DOMAIN b) |-> IF k \in DOMAIN b THEN b[k] ELSE a[k]]

EmptyDict == [k \in {} |-> None]

\* `x in message` for a string given as the sequence of its parts
Includes(message, part) == \E i \in DOMAIN message : message[i] = part

----------------------------------------------------------------------------
(* up_api.py: configuration and parameter construction *)

DefaultTimeout == 30

BaseUrl == "https://api.up.com.au/api/v1"

UserAgent == "up-mcp/1.0 (+https://github.com/shaunakg/up-mcp)"

UpAPIConfig(token) ==
    [token |-> token, timeout |-> DefaultTimeout,
     base_url |-> BaseUrl, user_agent |-> UserAgent]

\* what a function does: return a value, issue one _request, or raise
Return(value) == [kind |-> "return", value |-> value]

Raise(type, message) == [kind |-> "raise", type |-> type, message |-> message]

NoJson == [absent |-> TRUE]

Request(method, path, params, json) ==
    [kind |-> "request", method |-> method, path |-> path,
     params |-> params, json |-> json]

TokenRequiredMessage == <<"A non-empty Personal Access Token is required.">>

\* UpAPI.__init__
UpAPI(config) ==
    IF ~Truthy(config.token)
    THEN Raise("ValueError", TokenRequiredMessage)
    ELSE Return(config)

\* _compact_params keeping every key, None included
CompactParamsKeepNone(params) == params

\* {key: value for key, value in params.items() if value is not None}
CompactParams(params) ==
    [k \in {key \in DOMAIN params : params[key] # None} |-> params[k]]

\* _pagination_params with the two cursors under each other's key
PaginationParamsSwapped(page_size, after, before) ==
    CompactParams([k \in {"page[size]", "page[after]", "page[before]"} |->
        CASE k = "page[size]" -> page_size
          [] k = "page[after]" -> before
          [] k = "page[before]" -> after])

PaginationParams(page_size, after, before) ==
    CompactParams([k \in {"page[size]", "page[after]", "page[before]"} |->
        CASE k = "page[size]" -> page_size
          [] k = "page[after]" -> after
          [] k = "page[before]" -> before])

----------------------------------------------------------------------------
(* up_api.py: the client methods, up to their call of _request *)

ping == Request("GET", <<"/util/ping">>, EmptyDict, NoJson)

list_accounts(page_size, after, before) ==
    Request("GET", <<"/accounts">>,
            PaginationParams(page_size, after, before), NoJson)

get_account(account_id) ==
    Request("GET", <<"/accounts/", account_id>>, EmptyDict, NoJson)

list_transactions(status, since, until, category, tag, page_size, after, before) ==
    Request("GET", <<"/transactions">>,
            Merge(PaginationParams(page_size, after, before),
                  CompactParams([k \in {"filter[status]", "filter[since]",
                                        "filter[until]", "filter[category]",
                                        "filter[tag]"} |->
                      CASE k = "filter[status]" -> status
                        [] k = "filter[since]" -> since
                        [] k = "filter[until]" -> until
                        [] k = "filter[category]" -> category
                        [] k = "filter[tag]" -> tag])),
            NoJson)

get_transaction(transaction_id) ==
    Request("GET", <<"/transactions/", transaction_id>>, EmptyDict, NoJson)

list_transactions_by_account(account_id, status, since, until, tag, page_size, after, before) ==
    Request("GET", <<"/accounts/", account_id, "/transactions">>,
            Merge(PaginationParams(page_size, after, before),
                  CompactParams([k \in {"filter[status]", "filter[since]",
                                        "filter[until]", "filter[tag]"} |->
                      CASE k = "filter[status]" -> status
                        [] k = "filter[since]" -> since
                        [] k = "filter[until]" -> until
                        [] k = "filter[tag]" -> tag])),
            NoJson)

list_attachments(transaction_id, page_size, after, before) ==
    Request("GET", <<"/attachments">>,
            Merge(PaginationParams(page_size, after, before),
                  CompactParams([k \in {"filter[transaction]"} |-> transaction_id])),
            NoJson)

get_attachment(attachment_id) ==
    Request("GET", <<"/attachments/", attachment_id>>, EmptyDict, NoJson)

list_categories(parent_category_id, page_size, after, before) ==
    Request("GET", <<"/categories">>,
            Merge(PaginationParams(page_size, after, before),
                  CompactParams([k \in {"filter[parent]"} |-> parent_category_id])),
            NoJson)

get_category(category_id) ==
    Request("GET", <<"/categories/", category_id>>, EmptyDict, NoJson)

categorize_transaction(transaction_id, category_id) ==
    Request("POST",
            <<"/transactions/", transaction_id, "/relationships/category">>,
            EmptyDict,
            [data |-> [type |-> "categories", id |-> category_id]])

remove_transaction_category(transaction_id) ==
    Request("DELETE",
            <<"/transactions/", transaction_id, "/relationships/category">>,
            EmptyDict, NoJson)

list_tags == Request("GET", <<"/tags">>, EmptyDict, NoJson)

TagRequiredMessage == <<"At least one tag is required.">>

\* add_tags_to_transaction without its `if not tags` guard
add_tags_to_transaction_unguarded(transaction_id, tags) ==
    Request("POST",
            <<"/transactions/", transaction_id, "/relationships/tags">>,
            EmptyDict,
            [data |-> [i \in DOMAIN tags |-> [type |-> "tags", id |-> tags[i]]]])

add_tags_to_transaction(transaction_id, tags) ==
    IF tags = <<>>
    THEN Raise("ValueError", TagRequiredMessage)
    ELSE Request("POST",
                 <<"/transactions/", transaction_id, "/relationships/tags">>,
                 EmptyDict,
                 [data |-> [i \in DOMAIN tags |-> [type |-> "tags", id |-> tags[i]]]])

remove_tags_from_transaction(transaction_id, tags) ==
    IF tags = <<>>
    THEN Raise("ValueError", TagRequiredMessage)
    ELSE Request("DELETE",
                 <<"/transactions/", transaction_id, "/relationships/tags">>,
                 EmptyDict,
                 [data |-> [i \in DOMAIN tags |-> [type |-> "tags", id |-> tags[i]]]])

list_webhooks(page_size, after, before) ==
    Request("GET", <<"/webhooks">>,
            PaginationParams(page_size, after, before), NoJson)

create_webhook(url, description, secret_key) ==
    Request("POST", <<"/webhooks">>, EmptyDict,
            [data |-> [type |-> "webhooks",
                       attributes |->
                           CompactParams([k \in {"url", "description", "secretKey"} |->
                               CASE k = "url" -> PyStr(url)
                                 [] k = "description" -> description
                                 [] k = "secretKey" -> secret_key])]])

get_webhook(webhook_id) ==
    Request("GET", <<"/webhooks/", webhook_id>>, EmptyDict, NoJson)

delete_webhook(webhook_id) ==
    Request("DELETE", <<"/webhooks/", webhook_id>>, EmptyDict, NoJson)

ping_webhook(webhook_id) ==
    Request("POST", <<"/webhooks/", webhook_id, "/ping">>, EmptyDict, NoJson)

list_webhook_logs(webhook_id, page_size, after, before) ==
    Request("GET", <<"/webhooks/", webhook_id, "/logs">>,
            PaginationParams(page_size, after, before), NoJson)

----------------------------------------------------------------------------
(* up_api.py: UpAPI._request *)

Headers(config) ==
    [h \in {"Authorization", "User-Agent", "Accept"} |->
        CASE h = "Authorization" -> <<"Bearer ", config.token.str>>
          [] h = "User-Agent" -> <<config.user_agent>>
          [] h = "Accept" -> <<"application/json">>]

\* the arguments _request hands to httpx.request
HttpxRequest(config, request) ==
    [method |-> request.method,
     url |-> <<config.base_url>> \o request.path,
     headers |-> Headers(config),
     params |-> request.params,
     json |-> request.json,
     timeout |-> config.timeout]

\* the response bodies the upstream answers with
OkText == "{\"data\": {\"id\": \"abc\"}}"

NotFoundText == "{\"errors\":[{\"title\":\"Not Found\"}]}"

PlainText == "Bad Gateway"

EmptyText == ""

\* Response.json(): the parsed document, or a JSONDecodeError
ResponseJson(text) ==
    CASE text = OkText -> Return({<<"data.id", "abc">>})
      [] text = NotFoundText -> Return({<<"errors[0].title", "Not Found">>})
      [] OTHER -> Raise("JSONDecodeError", <<"Expecting value">>)

\* f"{detail}" of a parsed document (the repr of the dict), in parts
FormatJson(json) ==
    CASE json = {<<"data.id", "abc">>} -> <<"{'data': {'id': '", "abc", "'}}">>
      [] json = {<<"errors[0].title", "Not Found">>} ->
            <<"{'errors': [{'title': '", "Not Found", "'}]}">>

\* what httpx.request comes back with: a transport failure (an httpx.HTTPError
\* that is no HTTPStatusError), or a response with a status and a body
TransportFailure(exc) == [exc |-> exc, status_code |-> 0, text |-> ""]

Response(status_code, text) == [exc |-> "", status_code |-> status_code, text |-> text]

\* str(exc) of the transport failures
ExcText(exc) ==
    CASE exc = "ConnectError:dns" -> "[Errno -2] Name or service not known"
      [] exc = "ConnectError:refused" -> "[Errno 111] Connection refused"
      [] exc = "ReadTimeout" -> "The read operation timed out"

\* Response.is_success
IsSuccess(status_code) == status_code \in 200..299

\* lines 66-75 with the detail left out of the message
StatusErrorNoDetail(response) ==
    Raise("UpAPIError",
          <<"Up API request failed (", ToString(response.status_code), ")">>)

\* lines 66-75: except httpx.HTTPStatusError
StatusError(response) ==
    LET parsed == ResponseJson(response.text)
        detail == IF parsed.kind = "return"
                  THEN FormatJson(parsed.value)
                  ELSE <<response.text>>
    IN  Raise("UpAPIError",
              <<"Up API request failed (", ToString(response.status_code), "): ">>
                  \o detail)

\* lines 76-77 letting the transport failure through as it is
TransportErrorUnwrapped(response) ==
    Raise(response.exc, <<ExcText(response.exc)>>)

\* lines 76-77: except httpx.HTTPError
TransportError(response) ==
    Raise("UpAPIError", <<"Unable to reach Up API: ", ExcText(response.exc)>>)

\* lines 56-79: the outcome of _request once httpx.request has come back
RequestOutcome(response) ==
    IF response.exc # ""
    THEN TransportError(response)
    ELSE IF ~IsSuccess(response.status_code)
         THEN StatusError(response)
         ELSE ResponseJson(response.text)

----------------------------------------------------------------------------
(* server.py: credential resolution and error translation *)

\* the authentication context of an inbound call
OutsideRequest == [ctx |-> "outside", token |-> ""]

NoAccessToken == [ctx |-> "anonymous", token |-> ""]

AccessToken(token) == [ctx |-> "token", token |-> token]

\* _resolve_token_from_request
ResolveTokenFromRequest(auth) ==
    IF auth.ctx = "outside"
    THEN None
    ELSE IF auth.ctx = "token" /\ auth.token # ""
         THEN PyStr(auth.token)
         ELSE None

ConfigErrorMessage ==
    <<"An Up API token is required. Either include a bearer token in the ",
      "FastMCP request or set the UP_API_TOKEN environment variable.">>

\* _get_client without its `if not token` check
GetClientUnchecked(auth, environ) ==
    UpAPI(UpAPIConfig(PyOr(ResolveTokenFromRequest(auth), environ)))

\* _get_client
GetClient(auth, environ) ==
    LET token == PyOr(ResolveTokenFromRequest(auth), environ)
    IN  IF ~Truthy(token)
        THEN Raise("RuntimeError", ConfigErrorMessage)
        ELSE UpAPI(UpAPIConfig(token))

\* _run_api_call: an UpAPIError is re-raised as RuntimeError(str(exc)),
\* anything else passes
RunApiCall(outcome) ==
    IF outcome.kind = "raise" /\ outcome.type = "UpAPIError"
    THEN Raise("RuntimeError", outcome.message)
    ELSE outcome

----------------------------------------------------------------------------
(* server.py: the tools *)

Tools ==
    {"up_ping", "list_accounts", "get_account", "list_transactions",
     "get_transaction", "list_account_transactions", "list_attachments",
     "get_attachment", "list_categories", "get_category",
     "categorize_transaction", "clear_transaction_category", "list_tags",
     "add_tags_to_transaction", "remove_tags_from_transaction",
     "list_webhooks", "create_webhook", "get_webhook", "delete_webhook",
     "ping_webhook", "list_webhook_logs"}

\* the required str parameters of a tool's signature
RequiredParams(tool) ==
    CASE tool \in {"get_account", "list_account_transactions"} -> {"account_id"}
      [] tool \in {"get_transaction", "clear_transaction_category",
                   "add_tags_to_transaction", "remove_tags_from_transaction"} ->
            {"transaction_id"}
      [] tool = "get_attachment" -> {"attachment_id"}
      [] tool = "get_category" -> {"category_id"}
      [] tool = "categorize_transaction" -> {"transaction_id", "category_id"}
      [] tool = "create_webhook" -> {"url"}
      [] tool \in {"get_webhook", "delete_webhook", "ping_webhook",
                   "list_webhook_logs"} -> {"webhook_id"}
      [] OTHER -> {}

\* the Optional[int] parameters of a tool's signature
OptionalIntParams(tool) ==
    IF tool \in {"list_accounts", "list_transactions", "list_account_transactions",
                 "list_attachments", "list_categories", "list_webhooks",
                 "list_webhook_logs"}
    THEN {"page_size"}
    ELSE {}

\* the Optional[str] parameters of a tool's signature
OptionalStrParams(tool) ==
    CASE tool \in {"list_accounts", "list_webhooks", "list_webhook_logs"} ->
            {"cursor_after", "cursor_before"}
      [] tool = "list_transactions" ->
            {"status", "since", "until", "category", "tag",
             "cursor_after", "cursor_before"}
      [] tool = "list_account_transactions" ->
            {"status", "since", "until", "tag", "cursor_after", "cursor_before"}
      [] tool = "list_attachments" ->
            {"transaction_id", "cursor_after", "cursor_before"}
      [] tool = "list_categories" ->
            {"parent_category_id", "cursor_after", "cursor_before"}
      [] tool = "create_webhook" -> {"description", "secret_key"}
      [] OTHER -> {}

\* the List[str] parameters of a tool's signature
ListParams(tool) ==
    IF tool \in {"add_tags_to_transaction", "remove_tags_from_transaction"}
    THEN {"tags"}
    ELSE {}

\* the body of each tool after `client = _get_client()`: the client method
\* the lambda handed to _run_api_call invokes, with the tool's arguments a
ToolCall(tool, a) ==
    CASE tool = "up_ping" -> ping
      [] tool = "list_accounts" ->
            list_accounts(a.page_size, a.cursor_after, a.cursor_before)
      [] tool = "get_account" -> get_account(a.account_id)
      [] tool = "list_transactions" ->
            list_transactions(a.status, a.since, a.until, a.category, a.tag,
                              a.page_size, a.cursor_after, a.cursor_before)
      [] tool = "get_transaction" -> get_transaction(a.transaction_id)
      [] tool = "list_account_transactions" ->
            list_transactions_by_account(a.account_id, a.status, a.since,
                                         a.until, a.tag, a.page_size,
                                         a.cursor_after, a.cursor_before)
      [] tool = "list_attachments" ->
            list_attachments(a.transaction_id, a.page_size,
                             a.cursor_after, a.cursor_before)
      [] tool = "get_attachment" -> get_attachment(a.attachment_id)
      [] tool = "list_categories" ->
            list_categories(a.parent_category_id, a.page_size,
                            a.cursor_after, a.cursor_before)
      [] tool = "get_category" -> get_category(a.category_id)
      [] tool = "categorize_transaction" ->
            categorize_transaction(a.transaction_id, a.category_id)
      [] tool = "clear_transaction_category" ->
            remove_transaction_category(a.transaction_id)
      [] tool = "list_tags" -> list_tags
      [] tool = "add_tags_to_transaction" ->
            add_tags_to_transaction(a.transaction_id, a.tags)
      [] tool = "remove_tags_from_transaction" ->
            remove_tags_from_transaction(a.transaction_id, a.tags)
      [] tool = "list_webhooks" ->
            list_webhooks(a.page_size, a.cursor_after, a.cursor_before)
      [] tool = "create_webhook" ->
            create_webhook(a.url, a.description, a.secret_key)
      [] tool = "get_webhook" -> get_webhook(a.webhook_id)
      [] tool = "delete_webhook" -> delete_webhook(a.webhook_id)
      [] tool = "ping_webhook" -> ping_webhook(a.webhook_id)
      [] tool = "list_webhook_logs" ->
            list_webhook_logs(a.webhook_id, a.page_size,
                              a.cursor_after, a.cursor_before)

----------------------------------------------------------------------------
(* The inputs: what callers pass and what the upstream answers *)

Ids == {"id1"}

TagNames == {"t1", "t2"}

TagLists == UNION {[1..n -> TagNames] : n \in 0..MaxTags}

OptStr == {None, PyStr(""), PyStr("x")}

OptInt == {None, PyInt(0), PyInt(20)}

\* the argument records of a tool, its optionals drawn from strs and ints
ArgsOver(tool, strs, ints, lists) ==
    {Merge(Merge(r, s), Merge(i, l)) :
        r \in [RequiredParams(tool) -> Ids],
        s \in [OptionalStrParams(tool) -> strs],
        i \in [OptionalIntParams(tool) -> ints],
        l \in [ListParams(tool) -> lists]}

\* every combination of absent, empty and given optionals
AllArgs(tool) == ArgsOver(tool, OptStr, OptInt, TagLists)

\* no optional given, or every optional given
PlainArgs(tool) ==
    ArgsOver(tool, {None}, {None}, TagLists)
        \cup ArgsOver(tool, {PyStr("x")}, {PyInt(20)}, TagLists)

AuthContexts ==
    {OutsideRequest, NoAccessToken, AccessToken(""),
     AccessToken("tokA"), AccessToken("tokB")}

\* os.environ.get("UP_API_TOKEN"): unset, empty or set
Environs == {None, PyStr(""), PyStr("envtok")}

Responses ==
    {TransportFailure(e) : e \in {"ConnectError:dns", "ConnectError:refused", "ReadTimeout"}}
        \cup {Response(st, t) : st \in {200, 404, 500},
                                t \in {OkText, NotFoundText, PlainText, EmptyText}}
        \cup {Response(204, EmptyText)}

----------------------------------------------------------------------------
(* The state machine: one tool call, step by step *)

\* calls[c] is the activation of the tool function that serves call c:
\*   pc       where it stands: "idle", "called" (entered, before _get_client),
\*            "client" (client built, before the client method), "inflight"
\*            (inside httpx.request), "done" (returned or raised)
\*   client   the UpAPIConfig held by the local variable `client`
\*   response what httpx.request came back with
\*   result   what the client method returned or raised inside _run_api_call
\*   outcome  what the tool returned or raised to its caller
\* wire[c] lists the HTTP requests call c has issued; env is UP_API_TOKEN.

Nothing == [kind |-> "none"]

NoResponse == [exc |-> "", status_code |-> 0, text |-> ""]

Idle ==
    [pc |-> "idle", tool |-> "", args |-> EmptyDict, auth |-> OutsideRequest,
     client |-> None, response |-> NoResponse, result |-> Nothing,
     outcome |-> Nothing]

\* the transport hands call c to the tool function
Begin(c, tool, args, auth) ==
    /\ calls[c].pc = "idle"
    /\ calls' = [calls EXCEPT ![c] =
                    [Idle EXCEPT !.pc = "called", !.tool = tool,
                                 !.args = args, !.auth = auth]]
    /\ wire' = [wire EXCEPT ![c] = <<>>]
    /\ UNCHANGED env

\* client = _get_client() with the client kept in a module-level variable:
\* a call reuses the client another call in progress has built
ResolveClientShared(c) ==
    /\ calls[c].pc = "called"
    /\ LET got == GetClient(calls[c].auth, env)
           kept == {d \in DOMAIN calls : calls[d].client # None}
       IN  calls' = [calls EXCEPT ![c] =
                IF kept # {}
                THEN [@ EXCEPT !.pc = "client",
                               !.client = calls[CHOOSE d \in kept : TRUE].client]
                ELSE IF got.kind = "raise"
                     THEN [@ EXCEPT !.pc = "done", !.outcome = got]
                     ELSE [@ EXCEPT !.pc = "client", !.client = got.value]]
    /\ UNCHANGED <<env, wire>>

\* a tool that runs the client method's validation before _get_client
ResolveClientAfterValidation(c) ==
    /\ calls[c].pc = "called"
    /\ LET got == GetClient(calls[c].auth, env)
           plan == ToolCall(calls[c].tool, calls[c].args)
       IN  calls' = [calls EXCEPT ![c] =
                IF plan.kind = "raise"
                THEN [@ EXCEPT !.pc = "done", !.result = plan,
                               !.outcome = RunApiCall(plan)]
                ELSE IF got.kind = "raise"
                     THEN [@ EXCEPT !.pc = "done", !.outcome = got]
                     ELSE [@ EXCEPT !.pc = "client", !.client = got.value]]
    /\ UNCHANGED <<env, wire>>

\* client = _get_client()
ResolveClient(c) ==
    /\ calls[c].pc = "called"
    /\ LET got == GetClient(calls[c].auth, env)
       IN  calls' = [calls EXCEPT ![c] =
                IF got.kind = "raise"
                THEN [@ EXCEPT !.pc = "done", !.outcome = got]
                ELSE [@ EXCEPT !.pc = "client", !.client = got.value]]
    /\ UNCHANGED <<env, wire>>

\* _run_api_call(fn) up to the call of httpx.request: the client method either
\* raises before any request or hands one request to httpx
CallMethod(c) ==
    /\ calls[c].pc = "client"
    /\ LET plan == ToolCall(calls[c].tool, calls[c].args)
       IN  IF plan.kind = "raise"
           THEN /\ calls' = [calls EXCEPT ![c] =
                        [@ EXCEPT !.pc = "done", !.result = plan,
                                  !.outcome = RunApiCall(plan)]]
                /\ UNCHANGED wire
           ELSE /\ calls' = [calls EXCEPT ![c].pc = "inflight"]
                /\ wire' = [wire EXCEPT ![c] =
                        Append(@, HttpxRequest(calls[c].client, plan))]
    /\ UNCHANGED env

\* Receive repeating the request once after a failure
ReceiveRetry(c) ==
    /\ calls[c].pc = "inflight"
    /\ \E response \in Responses :
          LET result == RequestOutcome(response)
          IN  IF result.kind = "raise" /\ Len(wire[c]) < 2
              THEN /\ wire' = [wire EXCEPT ![c] = Append(@, @[1])]
                   /\ UNCHANGED calls
              ELSE /\ calls' = [calls EXCEPT ![c] =
                           [@ EXCEPT !.pc = "done", !.response = response,
                                     !.result = result,
                                     !.outcome = RunApiCall(result)]]
                   /\ UNCHANGED wire
    /\ UNCHANGED env

\* httpx.request comes back; the rest of _request and of _run_api_call
Receive(c) ==
    /\ calls[c].pc = "inflight"
    /\ \E response \in Responses :
          LET result == RequestOutcome(response)
          IN  calls' = [calls EXCEPT ![c] =
                  [@ EXCEPT !.pc = "done", !.response = response,
                            !.result = result,
                            !.outcome = RunApiCall(result)]]
    /\ UNCHANGED <<env, wire>>

\* the transport delivers the outcome; the activation is gone
Deliver(c) ==
    /\ calls[c].pc = "done"
    /\ calls' = [calls EXCEPT ![c] = Idle]
    /\ wire' = [wire EXCEPT ![c] = <<>>]
    /\ UNCHANGED env

----------------------------------------------------------------------------
(* Spec: every tool, one call at a time *)

Invoke(c) ==
    /\ calls[c].pc = "idle"
    /\ \E tool \in Tools, auth \in AuthContexts :
          \E args \in PlainArgs(tool) : Begin(c, tool, args, auth)

\* the one call of the sequential runs
Sequential == {"call"}

Init ==
    /\ env \in Environs
    /\ calls = [c \in Sequential |-> Idle]
    /\ wire = [c \in Sequential |-> <<>>]

Next ==
    \E c \in Sequential :
        \/ Invoke(c)
        \/ ResolveClient(c)
        \/ CallMethod(c)
        \/ Receive(c)
        \/ Deliver(c)

Spec == Init /\ [][Next]_vars

----------------------------------------------------------------------------
(* SpecConcurrent: NumCalls calls interleaved by the hosting transport.  All *)
(* tools share _get_client and _request, so three of them stand for all.    *)

ConcurrentTools == {"up_ping", "add_tags_to_transaction", "delete_webhook"}

ConcurrentAuth == {NoAccessToken, AccessToken(""), AccessToken("tokA"), AccessToken("tokB")}

InvokeConcurrent(c) ==
    /\ calls[c].pc = "idle"
    /\ \E tool \in ConcurrentTools, auth \in ConcurrentAuth :
          \E args \in ArgsOver(tool, {None}, {None}, {<<"t1">>}) :
              Begin(c, tool, args, auth)

\* the upstream answers of the concurrent runs: a success and a failure
ReceiveConcurrent(c) ==
    /\ calls[c].pc = "inflight"
    /\ \E response \in {Response(200, OkText), TransportFailure("ReadTimeout")} :
          LET result == RequestOutcome(response)
          IN  calls' = [calls EXCEPT ![c] =
                  [@ EXCEPT !.pc = "done", !.response = response,
                            !.result = result,
                            !.outcome = RunApiCall(result)]]
    /\ UNCHANGED <<env, wire>>

InitConcurrent ==
    /\ env \in Environs
    /\ calls = [c \in 1..NumCalls |-> Idle]
    /\ wire = [c \in 1..NumCalls |-> <<>>]

NextConcurrent ==
    \E c \in 1..NumCalls :
        \/ InvokeConcurrent(c)
        \/ ResolveClient(c)
        \/ CallMethod(c)
        \/ ReceiveConcurrent(c)
        \/ Deliver(c)

SpecConcurrent == InitConcurrent /\ [][NextConcurrent]_vars

----------------------------------------------------------------------------
(* SpecParams: the request construction of every client method, over every  *)
(* combination of absent, empty and given optional arguments                *)

InvokeAuthenticated(c) ==
    /\ calls[c].pc = "idle"
    /\ \E tool \in Tools :
          \E args \in AllArgs(tool) : Begin(c, tool, args, AccessToken("tokA"))

InitParams ==
    /\ env = None
    /\ calls = [c \in Sequential |-> Idle]
    /\ wire = [c \in Sequential |-> <<>>]

NextParams ==
    \E c \in Sequential :
        \/ InvokeAuthenticated(c)
        \/ ResolveClient(c)
        \/ CallMethod(c)

SpecParams == InitParams /\ [][NextParams]_vars

----------------------------------------------------------------------------
(* What the claims speak of *)

\* the inbound call carries a non-empty bearer token
HasBearer(c) == calls[c].auth.ctx = "token" /\ calls[c].auth.token # ""

\* UP_API_TOKEN is set and not empty
EnvSet == env # None /\ env # PyStr("")

TagTools == {"add_tags_to_transaction", "remove_tags_from_transaction"}

\* the upstream answered call c with a status
Answered(c) ==
    /\ calls[c].pc = "done"
    /\ calls[c].response # NoResponse
    /\ calls[c].response.exc = ""

\* the key the upstream documents for an optional argument of a tool
DocumentedKey(name) ==
    CASE name = "page_size" -> "page[size]"
      [] name = "cursor_after" -> "page[after]"
      [] name = "cursor_before" -> "page[before]"
      [] name = "status" -> "filter[status]"
      [] name = "since" -> "filter[since]"
      [] name = "until" -> "filter[until]"
      [] name = "category" -> "filter[category]"
      [] name = "tag" -> "filter[tag]"
      [] name = "transaction_id" -> "filter[transaction]"
      [] name = "parent_category_id" -> "filter[parent]"
      [] name = "description" -> "description"
      [] name = "secret_key" -> "secretKey"

OptionalParams(tool) == OptionalStrParams(tool) \cup OptionalIntParams(tool)

\* the optional arguments call c was given
Provided(c) == {n \in OptionalParams(calls[c].tool) : calls[c].args[n] # None}

\* where the optional arguments of call c travel in its request: the JSON
\* attributes of create_webhook, the query string of every other tool
Outgoing(c) ==
    IF calls[c].tool = "create_webhook"
    THEN wire[c][1].json.data.attributes
    ELSE wire[c][1].params

----------------------------------------------------------------------------
(* C1 *)

\* C1: a tool call with no non-empty bearer token, made while UP_API_TOKEN is
\* unset or empty, issues no HTTP request at any point, never gets past
\* _get_client, and ends with the configuration error.
C1_NoTokenNoRequest ==
    \A c \in DOMAIN calls :
        (calls[c].pc # "idle" /\ ~HasBearer(c) /\ ~EnvSet) =>
            /\ wire[c] = <<>>
            /\ calls[c].pc \in {"called", "done"}
            /\ calls[c].pc = "done" =>
                  calls[c].outcome = Raise("RuntimeError", ConfigErrorMessage)

C1_Witness ==
    \E c \in DOMAIN calls :
        /\ calls[c].pc = "done"
        /\ calls[c].auth = AccessToken("")
        /\ env = PyStr("")
        /\ calls[c].outcome = Raise("RuntimeError", ConfigErrorMessage)
        /\ wire[c] = <<>>

----------------------------------------------------------------------------
(* C2 *)

\* C2: under every interleaving of concurrent calls, each HTTP request a call
\* has issued carries in its Authorization header the token resolved for that
\* call: its own bearer token when it has a non-empty one, else UP_API_TOKEN.
C2_OwnToken ==
    \A c \in DOMAIN calls :
        \A i \in DOMAIN wire[c] :
            LET header == wire[c][i].headers["Authorization"]
            IN  /\ Len(header) = 2
                /\ header[1] = "Bearer "
                /\ PyStr(header[2]) =
                      IF HasBearer(c) THEN PyStr(calls[c].auth.token) ELSE env

C2_Witness ==
    \E c, d \in DOMAIN calls :
        /\ calls[c].pc = "inflight" /\ calls[d].pc = "inflight"
        /\ calls[c].auth = AccessToken("tokA")
        /\ calls[d].auth = AccessToken("tokB")
        /\ env = PyStr("envtok")
        /\ wire[c][1].headers["Authorization"] = <<"Bearer ", "tokA">>
        /\ wire[d][1].headers["Authorization"] = <<"Bearer ", "tokB">>

----------------------------------------------------------------------------
(* C3 *)

\* C3: the query string (the JSON attributes, for create_webhook) of a request
\* holds exactly the documented keys of the optional arguments the caller
\* provided, each with the value given; create_webhook's attributes hold the
\* required url besides.
C3_ExactlyProvidedKeys ==
    \A c \in DOMAIN calls :
        calls[c].pc = "inflight" =>
            /\ DOMAIN Outgoing(c) \ {"url"} =
                  {DocumentedKey(n) : n \in Provided(c)}
            /\ \A n \in Provided(c) :
                  Outgoing(c)[DocumentedKey(n)] = calls[c].args[n]

C3_Witness ==
    \E c \in DOMAIN calls :
        /\ calls[c].pc = "inflight"
        /\ calls[c].tool = "list_transactions"
        /\ calls[c].args.page_size = PyInt(20)
        /\ calls[c].args.cursor_after = PyStr("x")
        /\ calls[c].args.cursor_before = None
        /\ calls[c].args.status = PyStr("x")
        /\ calls[c].args.category = None
        /\ wire[c][1].params["page[size]"] = PyInt(20)
        /\ wire[c][1].params["page[after]"] = PyStr("x")
        /\ "page[before]" \notin DOMAIN wire[c][1].params

----------------------------------------------------------------------------
(* C4 *)

\* C4 as stated: no key of the query string or of the JSON attributes carries
\* a null or an empty value.
C4_NoEmptyOrNull ==
    \A c \in DOMAIN calls :
        calls[c].pc = "inflight" =>
            \A k \in DOMAIN Outgoing(c) :
                Outgoing(c)[k] # None /\ Outgoing(c)[k] # PyStr("")

\* C4 as amended: no key of the query string or of the JSON attributes carries
\* a null value, and an empty string the caller passes is sent as given.
C4_NoNull ==
    \A c \in DOMAIN calls :
        calls[c].pc = "inflight" =>
            /\ \A k \in DOMAIN Outgoing(c) : Outgoing(c)[k] # None
            /\ \A n \in OptionalStrParams(calls[c].tool) :
                  calls[c].args[n] = PyStr("") =>
                      /\ DocumentedKey(n) \in DOMAIN Outgoing(c)
                      /\ Outgoing(c)[DocumentedKey(n)] = PyStr("")

C4_Witness ==
    \E c \in DOMAIN calls :
        /\ calls[c].pc = "inflight"
        /\ calls[c].tool = "list_transactions"
        /\ calls[c].args.status = PyStr("")
        /\ calls[c].args.since = None
        /\ wire[c][1].params["filter[status]"] = PyStr("")
        /\ "filter[since]" \notin DOMAIN wire[c][1].params

----------------------------------------------------------------------------
(* C5 *)

\* C5: a call of add_tags_to_transaction or remove_tags_from_transaction with
\* an empty tag list never issues an HTTP request and never returns a payload;
\* once the client method is called (the client was built) it ends at once
\* with the validation error "At least one tag is required.".
C5_EmptyTagsRejected ==
    \A c \in DOMAIN calls :
        (calls[c].tool \in TagTools /\ calls[c].args.tags = <<>>) =>
            /\ wire[c] = <<>>
            /\ calls[c].pc \in {"called", "client", "done"}
            /\ calls[c].pc = "done" =>
                  /\ calls[c].outcome.kind = "raise"
                  /\ calls[c].client # None =>
                        /\ calls[c].result = Raise("ValueError", TagRequiredMessage)
                        /\ calls[c].outcome = Raise("ValueError", TagRequiredMessage)

C5_Witness ==
    \E c \in DOMAIN calls :
        /\ calls[c].pc = "done"
        /\ calls[c].tool = "add_tags_to_transaction"
        /\ calls[c].args.tags = <<>>
        /\ calls[c].auth = AccessToken("tokA")
        /\ calls[c].outcome = Raise("ValueError", TagRequiredMessage)
        /\ wire[c] = <<>>

----------------------------------------------------------------------------
(* C6 *)

\* the token of call c resolves
TokenResolves(c) == HasBearer(c) \/ EnvSet

\* the local preconditions of the tool of call c pass
PreconditionsPass(c) ==
    calls[c].tool \in TagTools => calls[c].args.tags # <<>>

\* C6: a call never issues more than one HTTP request; it has issued none
\* before its client method runs and exactly one from then on, whatever the
\* upstream answers; a call whose token resolves and whose preconditions pass
\* ends with exactly one request issued, and a failed request ends the call
\* with an error.
C6_ExactlyOneRequest ==
    \A c \in DOMAIN calls :
        /\ Len(wire[c]) <= 1
        /\ calls[c].pc \in {"idle", "called", "client"} => Len(wire[c]) = 0
        /\ calls[c].pc = "inflight" => Len(wire[c]) = 1
        /\ (calls[c].pc = "done" /\ TokenResolves(c) /\ PreconditionsPass(c)) =>
              /\ Len(wire[c]) = 1
              /\ calls[c].response # NoResponse
              /\ (calls[c].response.exc # ""
                    \/ calls[c].response.status_code \notin 200..299) =>
                        calls[c].outcome.kind = "raise"

C6_Witness ==
    \E c \in DOMAIN calls :
        /\ calls[c].pc = "done"
        /\ calls[c].response = Response(500, PlainText)
        /\ calls[c].outcome.kind = "raise"
        /\ Len(wire[c]) = 1

----------------------------------------------------------------------------
(* C7 *)

\* the error detail of an upstream body, as a part of the message
DetailPart(text) ==
    CASE text = NotFoundText -> "Not Found"
      [] text = OkText -> "abc"
      [] OTHER -> text

\* C7: when the upstream answers with a non-success status, the client raises
\* its UpAPIError with a message that includes the status code and the detail
\* of the body, and the tool raises a RuntimeError with that same message.
C7_StatusErrorMessage ==
    \A c \in DOMAIN calls :
        (Answered(c) /\ calls[c].response.status_code \notin 200..299) =>
            /\ calls[c].result.kind = "raise"
            /\ calls[c].result.type = "UpAPIError"
            /\ Includes(calls[c].result.message,
                        ToString(calls[c].response.status_code))
            /\ Includes(calls[c].result.message,
                        DetailPart(calls[c].response.text))
            /\ calls[c].outcome = Raise("RuntimeError", calls[c].result.message)

C7_Witness ==
    \E c \in DOMAIN calls :
        /\ calls[c].pc = "done"
        /\ calls[c].response = Response(404, NotFoundText)
        /\ calls[c].outcome.kind = "raise"
        /\ Includes(calls[c].outcome.message, "404")
        /\ Includes(calls[c].outcome.message, "Not Found")

----------------------------------------------------------------------------
(* C8 *)

\* C8 as stated: when the upstream answers with a success status, the tool
\* returns a payload.
C8_SuccessReturnsPayload ==
    \A c \in DOMAIN calls :
        (Answered(c) /\ calls[c].response.status_code \in 200..299) =>
            calls[c].outcome.kind = "return"

----------------------------------------------------------------------------
(* C9 *)

GlobalFilters == {"status", "since", "until", "category", "tag"}

\* the arguments of a per-account listing given filter name alone, as value
PerAccountArgs(name, value) ==
    LET tool == "list_account_transactions"
        names == RequiredParams(tool) \cup OptionalParams(tool)
    IN  [n \in names |->
            IF n = name THEN value
            ELSE IF n \in RequiredParams(tool) THEN "id1" ELSE None]

\* C9 as stated: every filter a global listing forwards can be given to the
\* per-account listing, which forwards it under the same key.
C9_SameFilterOptions ==
    \A c \in DOMAIN calls :
        (calls[c].pc = "inflight" /\ calls[c].tool = "list_transactions") =>
            \A n \in GlobalFilters \cap Provided(c) :
                /\ n \in OptionalParams("list_account_transactions")
                /\ LET sent == ToolCall("list_account_transactions",
                                        PerAccountArgs(n, calls[c].args[n])).params
                   IN  /\ DocumentedKey(n) \in DOMAIN sent
                       /\ sent[DocumentedKey(n)] = wire[c][1].params[DocumentedKey(n)]

----------------------------------------------------------------------------
(* C10 *)

\* C10: when the one request fails in transport, the client raises the same
\* UpAPIError kind as for a status error, with a message that starts with
\* "Unable to reach Up API: " and holds no status code, and the tool raises a
\* RuntimeError with that same message.
C10_TransportErrorMessage ==
    \A c \in DOMAIN calls :
        (calls[c].pc = "done" /\ calls[c].response.exc # "") =>
            /\ calls[c].result.kind = "raise"
            /\ calls[c].result.type = "UpAPIError"
            /\ calls[c].result.type = StatusError(Response(500, PlainText)).type
            /\ calls[c].result.message[1] = "Unable to reach Up API: "
            /\ calls[c].result.message[1] # StatusError(Response(500, PlainText)).message[1]
            /\ \A st \in {200, 204, 404, 500} :
                  ~Includes(calls[c].result.message, ToString(st))
            /\ calls[c].outcome = Raise("RuntimeError", calls[c].result.message)
            /\ Len(wire[c]) = 1

C10_Witness ==
    \E c \in DOMAIN calls :
        /\ calls[c].pc = "done"
        /\ calls[c].response = TransportFailure("ReadTimeout")
        /\ calls[c].outcome =
              Raise("RuntimeError",
                    <<"Unable to reach Up API: ", "The read operation timed out">>)

----------------------------------------------------------------------------
(* C11 *)

\* C11: the checks of a tool call run in a fixed order.  The client method
\* runs, and a request is issued, only after the credential resolved; a request
\* is issued only after the local validation passed.  A tag-mutation call with
\* no usable token and an empty tag list ends with the configuration error,
\* its validation never run; with a usable token it ends with the ValueError
\* of the validation, which reaches the caller as raised, not re-raised as
\* the RuntimeError that _run_api_call makes of an UpAPIError.
C11_CheckOrder ==
    \A c \in DOMAIN calls :
        /\ calls[c].pc \in {"client", "inflight"} =>
              (TokenResolves(c) /\ calls[c].client # None)
        /\ calls[c].result # Nothing =>
              (TokenResolves(c) /\ calls[c].client # None)
        /\ wire[c] # <<>> =>
              (TokenResolves(c) /\ calls[c].client # None /\ PreconditionsPass(c))
        /\ (calls[c].pc = "done" /\ calls[c].tool \in TagTools
                /\ calls[c].args.tags = <<>>) =>
              IF TokenResolves(c)
              THEN /\ calls[c].result = Raise("ValueError", TagRequiredMessage)
                   /\ calls[c].outcome = calls[c].result
                   /\ calls[c].outcome.type # "RuntimeError"
              ELSE /\ calls[c].result = Nothing
                   /\ calls[c].outcome = Raise("RuntimeError", ConfigErrorMessage)

C11_Witness ==
    \E c \in DOMAIN calls :
        /\ calls[c].pc = "done"
        /\ calls[c].tool = "remove_tags_from_transaction"
        /\ calls[c].args.tags = <<>>
        /\ calls[c].auth = NoAccessToken
        /\ env = None
        /\ calls[c].outcome = Raise("RuntimeError", ConfigErrorMessage)
        /\ wire[c] = <<>>

====
